---- MODULE Spec2Model ----
(***************************************************************************)
(* SerBin (serbin.h): a header-only binary serializer.  A SerBin<out>      *)
(* writer appends the encoding of each value streamed into it with         *)
(* operator<< to a file; a SerBin<in> reader decodes values out of the     *)
(* file with operator>>.  The model follows SerBinTest.cpp: a writer       *)
(* scope streams some values, the file is closed, a reader scope streams   *)
(* the same static types back.                                             *)
(*                                                                         *)
(* Values.  A scalar is the unsigned number its object representation      *)
(* spells in little-endian order (floats are modelled by that number       *)
(* too).  Strings, vectors, arrays, lists and deques are sequences;        *)
(* std::set and std::map are sequences in key order; the unordered         *)
(* containers are sequences in their (unspecified) iteration order;        *)
(* pairs, tuples and user types are sequences of their slots; optional     *)
(* and the smart pointers are <<>> (empty / null) or <<payload>>.          *)
(***************************************************************************)
EXTENDS Integers, Sequences, FiniteSets, TLC

\* ---------------------------------------------------------------- bounds
\* longest top-level string / container the writer is given
MaxLen == 3
\* longest container nested inside another value
InnerLen == 1
\* number of values streamed into one writer
MaxOps == 2
\* size of the largest file of one value the writer produces, in bytes
MaxBytes == 27
\* size of the largest file of several values
MaxSeqBytes == 10
\* the reader may find the file up to this many bytes short
MaxCut == 2
\* a destination that is decoded into may already hold a value whose
\* encoding is at most this long
MaxHeld == 13

\* ------------------------------------------------------- bytes and sizes
\* numbers at or above Huge are not told apart (counts that no allocation
\* can satisfy)
Huge == 256 * 256 * 256

SizeOf(t) ==
  CASE t = "bool" -> 1
    [] t = "char" -> 1
    [] t = "wchar" -> 4
    [] t = "int" -> 4
    [] t = "float" -> 4
    [] t = "double" -> 8
    [] t = "longlong" -> 8
    [] t = "size_t" -> 8

RECURSIVE ToBytesLE(_, _)
\* the object representation of the unsigned number n in w bytes
ToBytesLE(n, w) ==
  IF w = 0 THEN <<>>
  ELSE <<(IF n >= Huge THEN 255 ELSE n % 256)>>
         \o ToBytesLE((IF n >= Huge THEN n ELSE n \div 256), w - 1)

RECURSIVE FromBytesLE(_)
\* the number an object representation spells
FromBytesLE(bs) ==
  IF Len(bs) = 0 THEN 0
  ELSE LET r == FromBytesLE(Tail(bs))
       IN IF r >= Huge \div 256 THEN Huge ELSE bs[1] + 256 * r

\* ---------------------------------------------------------------- shapes
\* the static type of a value: k the overload that serializes it, t the
\* scalar / character type, n the array extent, es the type arguments
Scalar(t) == [k |-> "scalar", t |-> t, n |-> 0, es |-> <<>>]
String(t) == [k |-> "string", t |-> t, n |-> 0, es |-> <<>>]
Vector(e) == [k |-> "vector", t |-> "", n |-> 0, es |-> <<e>>]
Array(e, n) == [k |-> "array", t |-> "", n |-> n, es |-> <<e>>]
List(e) == [k |-> "list", t |-> "", n |-> 0, es |-> <<e>>]
Deque(e) == [k |-> "deque", t |-> "", n |-> 0, es |-> <<e>>]
Set(e) == [k |-> "set", t |-> "", n |-> 0, es |-> <<e>>]
USet(e) == [k |-> "unordered_set", t |-> "", n |-> 0, es |-> <<e>>]
Pair(a, b) == [k |-> "pair", t |-> "", n |-> 0, es |-> <<a, b>>]
Map(a, b) == [k |-> "map", t |-> "", n |-> 0, es |-> <<a, b>>]
UMap(a, b) == [k |-> "unordered_map", t |-> "", n |-> 0, es |-> <<a, b>>]
Tuple(es) == [k |-> "tuple", t |-> "", n |-> 0, es |-> es]
Optional(e) == [k |-> "optional", t |-> "", n |-> 0, es |-> <<e>>]
UniquePtr(e) == [k |-> "unique_ptr", t |-> "", n |-> 0, es |-> <<e>>]
SharedPtr(e) == [k |-> "shared_ptr", t |-> "", n |-> 0, es |-> <<e>>]

TInt == Scalar("int")
TBool == Scalar("bool")

\* class Custom of the test: one member, a unique_ptr to a tuple
Custom ==
  [k |-> "user", t |-> "", n |-> 0,
   es |-> <<UniquePtr(Tuple(<<Scalar("float"), Scalar("double"),
                              Scalar("longlong")>>))>>]

serializeAsPOD(sh) == sh.k = "scalar"

IsPtr(sh) == sh.k \in {"unique_ptr", "shared_ptr"}

IsCounted(sh) ==
  sh.k \in {"string", "vector", "list", "deque", "set", "unordered_set",
            "map", "unordered_map"}

RECURSIVE Default(_)
RECURSIVE DefaultSlots(_, _)
\* T(): the value-initialized object of a type
Default(sh) ==
  CASE sh.k = "scalar" -> 0
    [] sh.k = "array" -> [i \in 1..sh.n |-> Default(sh.es[1])]
    [] sh.k \in {"pair", "tuple"} -> DefaultSlots(sh.es, 1)
    [] sh.k = "user" -> <<<<Default(sh.es[1].es[1])>>>>
    [] OTHER -> <<>>

DefaultSlots(es, id) ==
  IF id > Len(es) THEN <<>>
  ELSE <<Default(es[id])>> \o DefaultSlots(es, id + 1)

\* ---------------------------------------------------------------- values
\* the scalar values the writer is given, by type
ScalarVals(t) ==
  CASE t = "bool" -> {0, 1}
    [] t = "char" -> {65}
    [] t = "wchar" -> {68}
    [] t = "int" -> {456, 7890}
    [] t = "float" -> {67}
    [] t = "double" -> {125}
    [] t = "longlong" -> {800009}

SeqsUpTo(S, L) == UNION {[1..m -> S] : m \in 0..L}

RECURSIVE LexLess(_, _)
\* std::less on strings (sequences of code units)
LexLess(a, b) ==
  IF Len(b) = 0 THEN FALSE
  ELSE IF Len(a) = 0 THEN TRUE
  ELSE IF a[1] # b[1] THEN a[1] < b[1]
  ELSE LexLess(Tail(a), Tail(b))

\* std::less<K> for the key types used
KeyLess(sh, a, b) == IF sh.k = "scalar" THEN a < b ELSE LexLess(a, b)

\* the key of an element of a set (the element) or of a map (kv.first)
KeyOf(sh, x) == IF sh.k \in {"map", "unordered_map"} THEN x[1] ELSE x

Ordered(sh, s) ==
  \A i \in 1..Len(s) - 1 : KeyLess(sh.es[1], KeyOf(sh, s[i]), KeyOf(sh, s[i + 1]))

Distinct(sh, s) ==
  \A i, j \in 1..Len(s) : i # j => KeyOf(sh, s[i]) # KeyOf(sh, s[j])

RECURSIVE Values(_, _)
RECURSIVE SlotValues(_, _)
\* the values of a type with no container longer than L at the top and
\* InnerLen below
Values(sh, L) ==
  CASE sh.k = "scalar" -> ScalarVals(sh.t)
    [] sh.k = "string" -> SeqsUpTo(ScalarVals(sh.t), L)
    [] sh.k \in {"vector", "list", "deque"} ->
         SeqsUpTo(Values(sh.es[1], InnerLen), L)
    [] sh.k = "array" -> [1..sh.n -> Values(sh.es[1], InnerLen)]
    [] sh.k = "set" ->
         {s \in SeqsUpTo(Values(sh.es[1], InnerLen), L) : Ordered(sh, s)}
    [] sh.k = "unordered_set" ->
         {s \in SeqsUpTo(Values(sh.es[1], InnerLen), L) : Distinct(sh, s)}
    [] sh.k = "map" ->
         {s \in SeqsUpTo(SlotValues(sh.es, 1), L) : Ordered(sh, s)}
    [] sh.k = "unordered_map" ->
         {s \in SeqsUpTo(SlotValues(sh.es, 1), L) : Distinct(sh, s)}
    [] sh.k \in {"pair", "tuple"} -> SlotValues(sh.es, 1)
    [] sh.k \in {"optional", "unique_ptr", "shared_ptr"} ->
         {<<>>} \cup {<<x>> : x \in Values(sh.es[1], L)}
    [] sh.k = "user" -> {<<p>> : p \in Values(sh.es[1], L) \ {<<>>}}

SlotValues(es, id) ==
  IF id > Len(es) THEN {<<>>}
  ELSE {<<x>> \o r : x \in Values(es[id], InnerLen), r \in SlotValues(es, id + 1)}

\* the static types instantiated
Shapes ==
  { TInt,
    String("char"),
    Vector(TInt),
    Vector(Optional(TInt)),
    Array(TInt, 2),
    List(TInt),
    Deque(Scalar("char")),
    Set(TInt),
    USet(String("wchar")),
    Pair(TInt, TBool),
    Map(String("char"), TBool),
    UMap(TInt, TBool),
    Tuple(<<TBool, List(Optional(TInt))>>),
    Tuple(<<UniquePtr(TInt), TBool>>),
    Optional(TInt),
    UniquePtr(TInt),
    SharedPtr(String("char")),
    Custom,
    Tuple(<<UniquePtr(Optional(Map(String("char"), Vector(TInt))))>>) }

\* --------------------------------------------------------------- encoder
\* The writer while one operator<< runs: out the bytes handed to
\* stream.write so far, derefs the number of null pointers dereferenced,
\* crashed whether such a dereference ended the process.  ub is the outcome
\* of dereferencing a null pointer in this build: the access faults
\* ("crash") or reads an all-zero object ("zeros").
UBOutcomes == {"crash", "zeros"}

NewWriter == [out |-> <<>>, derefs |-> 0, crashed |-> FALSE]

\* stream.write(p, n)
StreamWrite(wr, bytes) ==
  IF wr.crashed THEN wr ELSE [wr EXCEPT !.out = @ \o bytes]

\* writer << object, for fundamental types
WriteScalar(t, x, wr) == StreamWrite(wr, ToBytesLE(x, SizeOf(t)))

\* a bulk write that passes the element count as the byte count
BulkBytesNoSizeof(w, v, n) ==
  [i \in 1..n |-> ToBytesLE(v[((i - 1) \div w) + 1], w)[((i - 1) % w) + 1]]

\* the n * w chars at &object[0] of contiguous storage holding n elements
\* of width w
BulkBytes(w, v, n) ==
  [i \in 1..(w * n) |-> ToBytesLE(v[((i - 1) \div w) + 1], w)[((i - 1) % w) + 1]]

RECURSIVE Write(_, _, _, _)
RECURSIVE WriteEach(_, _, _, _, _)
RECURSIVE WriteSlots(_, _, _, _, _)

\* for (auto&& value : object) writer << value;
WriteEach(e, v, i, wr, ub) ==
  IF i > Len(v) THEN wr
  ELSE WriteEach(e, v, i + 1, Write(e, v[i], wr, ub), ub)

\* operator<< <id>(writer, tuple): slot id, then slot id + 1
WriteSlots(es, v, id, wr, ub) ==
  IF id > Len(es) THEN wr
  ELSE WriteSlots(es, v, id + 1, Write(es[id], v[id], wr, ub), ub)

\* writer << *object
WriteDeref(e, v, wr, ub) ==
  IF v # <<>> THEN Write(e, v[1], wr, ub)
  ELSE IF wr.crashed THEN wr
  ELSE IF ub = "crash"
  THEN [wr EXCEPT !.derefs = @ + 1, !.crashed = TRUE]
  ELSE Write(e, Default(e), [wr EXCEPT !.derefs = @ + 1], ub)

WritePtr(sh, v, wr, ub) ==
  WriteDeref(sh.es[1], v, WriteScalar("bool", (IF v # <<>> THEN 1 ELSE 0), wr), ub)

\* an optional encoder that writes the payload ahead of its flag
WriteOptionalFlagLast(sh, v, wr, ub) ==
  IF v # <<>>
  THEN WriteScalar("bool", 1, Write(sh.es[1], v[1], wr, ub))
  ELSE WriteScalar("bool", 0, wr)

WriteOptional(sh, v, wr, ub) ==
  LET hasValue == v # <<>>
      w1 == WriteScalar("bool", (IF hasValue THEN 1 ELSE 0), wr)
  IN IF hasValue THEN Write(sh.es[1], v[1], w1, ub) ELSE w1

WriteString(sh, v, wr) ==
  LET w1 == WriteScalar("size_t", Len(v), wr)
  IN IF Len(v) > 0
     THEN StreamWrite(w1, BulkBytes(SizeOf(sh.t), v, Len(v)))
     ELSE w1

WriteVector(sh, v, wr, ub) ==
  LET w1 == WriteScalar("size_t", Len(v), wr)
      e == sh.es[1]
  IN IF serializeAsPOD(e)
     THEN IF Len(v) > 0
          THEN StreamWrite(w1, BulkBytes(SizeOf(e.t), v, Len(v)))
          ELSE w1
     ELSE WriteEach(e, v, 1, w1, ub)

WriteArray(sh, v, wr, ub) ==
  LET e == sh.es[1]
  IN IF sh.n > 0
     THEN IF serializeAsPOD(e)
          THEN StreamWrite(wr, BulkBytes(SizeOf(e.t), v, sh.n))
          ELSE WriteEach(e, v, 1, wr, ub)
     ELSE wr

\* list, deque, set, unordered_set
WriteSequence(sh, v, wr, ub) ==
  WriteEach(sh.es[1], v, 1, WriteScalar("size_t", Len(v), wr), ub)

\* map, unordered_map: each kv through the pair overload
WriteMap(sh, v, wr, ub) ==
  WriteEach(Pair(sh.es[1], sh.es[2]), v, 1, WriteScalar("size_t", Len(v), wr), ub)

WritePair(sh, v, wr, ub) ==
  Write(sh.es[2], v[2], Write(sh.es[1], v[1], wr, ub), ub)

\* writer << object: overload resolution on the static type
Write(sh, v, wr, ub) ==
  CASE sh.k = "scalar" -> WriteScalar(sh.t, v, wr)
    [] sh.k \in {"unique_ptr", "shared_ptr"} -> WritePtr(sh, v, wr, ub)
    [] sh.k = "string" -> WriteString(sh, v, wr)
    [] sh.k = "vector" -> WriteVector(sh, v, wr, ub)
    [] sh.k = "array" -> WriteArray(sh, v, wr, ub)
    [] sh.k \in {"list", "deque", "set", "unordered_set"} ->
         WriteSequence(sh, v, wr, ub)
    [] sh.k = "pair" -> WritePair(sh, v, wr, ub)
    [] sh.k \in {"map", "unordered_map"} -> WriteMap(sh, v, wr, ub)
    [] sh.k = "tuple" -> WriteSlots(sh.es, v, 1, wr, ub)
    [] sh.k = "optional" -> WriteOptional(sh, v, wr, ub)
    [] sh.k = "user" -> Write(sh.es[1], v[1], wr, ub)

\* --------------------------------------------------------------- decoder
\* The reader while one operator>> runs: file the bytes of the file, pos
\* the get position, fail the stream's failbit, exit how the call ends
\* ("return", "throw" for an exception out of an allocation, "hang" for a
\* loop that does not end), short whether a read came up short, lateRead
\* whether stream.read was called with failbit already set, lateMod
\* whether the destination was changed with failbit already set.
\* u is what the uninitialized locals of this call hold: u.word where a
\* size or scalar local lives, u.flag where a bool local lives.
GarbageWords == {0, 2, Huge}
Garbage == [word : GarbageWords, flag : {0, 1}]

NewReader(file, pos, fail) ==
  [file |-> file, pos |-> pos, fail |-> fail, exit |-> "return",
   short |-> FALSE, lateRead |-> FALSE, lateMod |-> FALSE]

\* stream.read(p, n) over a buffer that holds old: with failbit set the
\* sentry fails and nothing is stored; a short read stores what is left
\* and sets failbit
StreamRead(rd, old, n) ==
  LET left == Len(rd.file) - rd.pos
  IN IF rd.fail
     THEN [bytes |-> old, rd |-> [rd EXCEPT !.lateRead = TRUE]]
     ELSE IF left >= n
     THEN [bytes |-> SubSeq(rd.file, rd.pos + 1, rd.pos + n),
           rd |-> [rd EXCEPT !.pos = @ + n]]
     ELSE [bytes |-> SubSeq(rd.file, rd.pos + 1, Len(rd.file))
                       \o SubSeq(old, left + 1, n),
           rd |-> [rd EXCEPT !.pos = Len(rd.file), !.fail = TRUE,
                             !.short = TRUE]]

\* the scalar a finished read leaves in the object
AsScalar(r) == [v |-> FromBytesLE(r.bytes), rd |-> r.rd]

\* reader >> object, for fundamental types
ReadScalar(t, old, rd) ==
  AsScalar(StreamRead(rd, ToBytesLE(old, SizeOf(t)), SizeOf(t)))

\* an uninitialized local of a fundamental type
Uninit(t, u) ==
  IF t = "bool" THEN u.flag ELSE FromBytesLE(ToBytesLE(u.word, SizeOf(t)))

\* a change to the destination object
Touch(rd) == IF rd.fail THEN [rd EXCEPT !.lateMod = TRUE] ELSE rd

\* the heap holds no container of more elements than this: a larger
\* resize, or run of push_back, ends in std::bad_alloc / std::length_error
MaxAlloc == 2 * MaxLen

\* object.resize(s): keeps the first s elements, value-initializes the rest
Resized(v, s, d) == [i \in 1..s |-> IF i <= Len(v) THEN v[i] ELSE d]

\* the n elements of width w a finished read leaves in the storage
AsElems(w, n, r) ==
  [v |-> [i \in 1..n |-> FromBytesLE(SubSeq(r.bytes, (i - 1) * w + 1, i * w))],
   rd |-> r.rd]

\* stream.read((char*)&object[0], sizeof(T) * n) into contiguous storage
BulkRead(w, v, rd) ==
  AsElems(w, Len(v), StreamRead(rd, BulkBytes(w, v, Len(v)), w * Len(v)))

\* std::set / std::map insertion: no effect when the key is present
InsertOrdered(sh, s, x) ==
  IF \E i \in 1..Len(s) : KeyOf(sh, s[i]) = KeyOf(sh, x) THEN s
  ELSE LET below == {i \in 1..Len(s) :
                       KeyLess(sh.es[1], KeyOf(sh, s[i]), KeyOf(sh, x))}
           m == Cardinality(below)
       IN SubSeq(s, 1, m) \o <<x>> \o SubSeq(s, m + 1, Len(s))

\* unordered insertion: no effect when the key is present; a new node is
\* linked in at the head of the iteration order
InsertHashed(sh, s, x) ==
  IF \E i \in 1..Len(s) : KeyOf(sh, s[i]) = KeyOf(sh, x) THEN s
  ELSE <<x>> \o s

Insert(sh, s, x) ==
  IF sh.k \in {"set", "map"} THEN InsertOrdered(sh, s, x)
  ELSE InsertHashed(sh, s, x)

RECURSIVE Read(_, _, _, _)
RECURSIVE ReadEach(_, _, _, _, _)
RECURSIVE ReadPush(_, _, _, _, _, _)
RECURSIVE ReadInsert(_, _, _, _, _, _)

\* element i decoded: on to element i + 1
EachNext(es, v, i, r, u) ==
  ReadEach(es, [v EXCEPT ![i] = r.v], i + 1, r.rd, u)

\* for (auto&& value : object) reader >> value;  (also the tuple's slots)
ReadEach(es, v, i, rd, u) ==
  IF i > Len(v) \/ rd.exit # "return" THEN [v |-> v, rd |-> rd]
  ELSE EachNext(es, v, i,
                Read((IF Len(es) = 1 THEN es[1] ELSE es[i]), v[i], rd, u), u)

\* object.back() decoded: on to the next push_back
PushNext(e, v, i, s, r, u) == ReadPush(e, Append(v, r.v), i + 1, s, r.rd, u)

\* for (i = 0; i < s; ++i) { object.push_back(T()); reader >> object.back(); }
ReadPush(e, v, i, s, rd, u) ==
  IF i >= s \/ rd.exit # "return" THEN [v |-> v, rd |-> rd]
  ELSE PushNext(e, v, i, s, Read(e, Default(e), Touch(rd), u), u)

\* the local decoded: insert it, on to the next.  An iteration begun with
\* failbit set reads nothing and inserts what the one before it would:
\* all the iterations left do the same, so one stands for them
InsertNext(sh, v, i, s, r, u, spent) ==
  IF r.rd.exit # "return" THEN [v |-> v, rd |-> r.rd]
  ELSE ReadInsert(sh, Insert(sh, v, r.v), (IF spent THEN s ELSE i + 1), s,
                  Touch(r.rd), u)

\* the element type of an associative container and its local
ElemOf(sh) ==
  IF sh.k \in {"map", "unordered_map"} THEN Pair(sh.es[1], sh.es[2])
  ELSE sh.es[1]

Local(e, u) == IF e.k = "scalar" THEN Uninit(e.t, u) ELSE Default(e)

\* for (i = 0; i < s; ++i) { T value; reader >> value; object.insert(value); }
ReadInsert(sh, v, i, s, rd, u) ==
  IF i >= s \/ rd.exit # "return" THEN [v |-> v, rd |-> rd]
  ELSE InsertNext(sh, v, i, s,
                  Read(ElemOf(sh), Local(ElemOf(sh), u), rd, u), u, rd.fail)

\* the count local of a container overload
ReadCount(rd, u) == ReadScalar("size_t", u.word, rd)

\* a level that resets the stream state once its payload is decoded
HoldingCleared(r) == [v |-> <<r.v>>, rd |-> [r.rd EXCEPT !.fail = FALSE]]

\* the object now owns / holds the payload decoded
Holding(r) == [v |-> <<r.v>>, rd |-> r.rd]

\* hasValue read: if (hasValue) { object = std::make_unique<T>(); reader >> *object; }
PtrBody(sh, obj, h, u) ==
  IF h.v # 0
  THEN Holding(Read(sh.es[1], Default(sh.es[1]), Touch(h.rd), u))
  ELSE [v |-> obj, rd |-> h.rd]

ReadPtr(sh, obj, rd, u) ==
  PtrBody(sh, obj, ReadScalar("bool", u.flag, rd), u)

\* hasValue read: if (hasValue) { object = T(); reader >> *object; }
OptionalBody(sh, obj, h, u) ==
  IF h.v # 0
  THEN Holding(Read(sh.es[1], Default(sh.es[1]), Touch(h.rd), u))
  ELSE [v |-> obj, rd |-> h.rd]

ReadOptional(sh, obj, rd, u) ==
  OptionalBody(sh, obj, ReadScalar("bool", u.flag, rd), u)

\* s read: if (s > 0) { object.resize(s); stream.read(...); }
StringBody(sh, obj, c) ==
  IF c.v > 0
  THEN IF c.v > MaxAlloc
       THEN [v |-> obj, rd |-> [c.rd EXCEPT !.exit = "throw"]]
       ELSE BulkRead(SizeOf(sh.t), Resized(obj, c.v, 0), Touch(c.rd))
  ELSE [v |-> obj, rd |-> c.rd]

ReadString(sh, obj, rd, u) == StringBody(sh, obj, ReadCount(rd, u))

\* s read: if (s == 0) return; object.resize(s); then the bulk read or the
\* element loop
VectorBody(sh, obj, c, u) ==
  IF c.v = 0 THEN [v |-> obj, rd |-> c.rd]
  ELSE IF c.v > MaxAlloc
  THEN [v |-> obj, rd |-> [c.rd EXCEPT !.exit = "throw"]]
  ELSE IF serializeAsPOD(sh.es[1])
  THEN BulkRead(SizeOf(sh.es[1].t), Resized(obj, c.v, Default(sh.es[1])),
                Touch(c.rd))
  ELSE ReadEach(sh.es, Resized(obj, c.v, Default(sh.es[1])), 1, Touch(c.rd), u)

ReadVector(sh, obj, rd, u) == VectorBody(sh, obj, ReadCount(rd, u), u)

ReadArray(sh, obj, rd, u) ==
  IF sh.n > 0
  THEN IF serializeAsPOD(sh.es[1])
       THEN BulkRead(SizeOf(sh.es[1].t), obj, rd)
       ELSE ReadEach(sh.es, obj, 1, rd, u)
  ELSE [v |-> obj, rd |-> rd]

\* s read, list and deque: a count no memory can hold ends in std::bad_alloc
ListBody(sh, obj, c, u) ==
  IF c.v + Len(obj) > MaxAlloc
  THEN [v |-> obj, rd |-> [Touch(c.rd) EXCEPT !.exit = "throw"]]
  ELSE ReadPush(sh.es[1], obj, 0, c.v, c.rd, u)

ReadList(sh, obj, rd, u) == ListBody(sh, obj, ReadCount(rd, u), u)

\* s read, set, unordered_set, map, unordered_map: with a count at or above
\* Huge the loop inserts the same local over and over for longer than
\* anyone waits
AssocBody(sh, obj, c, u) ==
  IF c.v >= Huge
  THEN [v |-> obj, rd |-> [Touch(c.rd) EXCEPT !.exit = "hang"]]
  ELSE ReadInsert(sh, obj, 0, c.v, c.rd, u)

ReadAssoc(sh, obj, rd, u) == AssocBody(sh, obj, ReadCount(rd, u), u)

\* a user type: reader >> object.data
ReadUser(sh, obj, rd, u) == Holding(Read(sh.es[1], obj[1], rd, u))

\* reader >> object: overload resolution on the static type
Read(sh, obj, rd, u) ==
  IF rd.exit # "return" THEN [v |-> obj, rd |-> rd]
  ELSE CASE sh.k = "scalar" -> ReadScalar(sh.t, obj, rd)
         [] sh.k \in {"unique_ptr", "shared_ptr"} -> ReadPtr(sh, obj, rd, u)
         [] sh.k = "string" -> ReadString(sh, obj, rd, u)
         [] sh.k = "vector" -> ReadVector(sh, obj, rd, u)
         [] sh.k = "array" -> ReadArray(sh, obj, rd, u)
         [] sh.k \in {"list", "deque"} -> ReadList(sh, obj, rd, u)
         [] sh.k \in {"set", "unordered_set", "map", "unordered_map"} ->
              ReadAssoc(sh, obj, rd, u)
         [] sh.k \in {"pair", "tuple"} -> ReadEach(sh.es, obj, 1, rd, u)
         [] sh.k = "optional" -> ReadOptional(sh, obj, rd, u)
         [] sh.k = "user" -> ReadUser(sh, obj, rd, u)

\* the equality of a type: the unordered containers compare by membership
Range(s) == {s[i] : i \in 1..Len(s)}

Same(sh, a, b) ==
  IF sh.k \in {"unordered_set", "unordered_map"} THEN Range(a) = Range(b)
  ELSE a = b

\* ------------------------------------------------------------- the program
\* pc      where main() is: in the writer scope, in the reader scope, or
\*         ended early ("crashed" in a write, "aborted" out of a read)
\* stream  the bytes the writer has put in the file
\* wrote   one record for each writer << v, in order
\* file    the bytes the reader finds in the file
\* rs      the reader's stream: get position and failbit
\* nread   the number of reader >> d executed
\* last    what the latest reader >> d did
VARIABLES pc, stream, wrote, file, rs, nread, last

vars == <<pc, stream, wrote, file, rs, nread, last>>

Init ==
  /\ pc = "writing"
  /\ stream = <<>>
  /\ wrote = <<>>
  /\ file = <<>>
  /\ rs = [pos |-> 0, fail |-> FALSE]
  /\ nread = 0
  /\ last = [sh |-> TBool]

\* what the writer may be given, with what operator<< does with it
Inputs ==
  UNION {{[sh |-> sh, v |-> v, ub |-> ub, wr |-> Write(sh, v, NewWriter, ub)] :
            v \in Values(sh, MaxLen), ub \in UBOutcomes} : sh \in Shapes}

\* the values a destination object may hold when it is decoded into: the
\* default-constructed one, or one left in it by earlier use
DestVals(sh) ==
  {Default(sh)} \cup
  {in.v : in \in {i \in Inputs : i.sh = sh /\ ~i.wr.crashed
                                 /\ Len(i.wr.out) <= MaxHeld}}

\* the inputs the next writer << v may be given
NextInputs ==
  IF pc = "writing" /\ Len(wrote) < MaxOps THEN Inputs ELSE {}

\* the room the file has for the next value
Room == (IF wrote = <<>> THEN MaxBytes ELSE MaxSeqBytes) - Len(stream)

\* writer << v;
Put(in) ==
  /\ pc = "writing"
  /\ Len(wrote) < MaxOps
  /\ Len(in.wr.out) <= Room
  /\ stream' = stream \o in.wr.out
  /\ wrote' = Append(wrote, [sh |-> in.sh, v |-> in.v, start |-> Len(stream),
                             end |-> Len(stream) + Len(in.wr.out),
                             derefs |-> in.wr.derefs])
  /\ pc' = IF in.wr.crashed THEN "crashed" ELSE "writing"
  /\ UNCHANGED <<file, rs, nread, last>>

\* the writer goes out of scope and a reader opens the file; the file
\* holds the stream, or a prefix of it when the tail never reached it
Reopen(cut) ==
  /\ pc = "writing"
  /\ wrote # <<>>
  /\ cut <= Len(stream)
  /\ file' = SubSeq(stream, 1, Len(stream) - cut)
  /\ pc' = "reading"
  /\ UNCHANGED <<stream, wrote, rs, nread, last>>

\* the destinations the next reader >> d may be given
NextDests ==
  IF pc = "reading" /\ nread < Len(wrote)
  THEN DestVals(wrote[nread + 1].sh) ELSE {}

\* what the uninitialized locals of the next reader >> d may hold: it
\* matters only to a call in which some read is not served in full
Clean == [word |-> 0, flag |-> 0]

Served(r) == ~r.rd.fail /\ r.rd.exit = "return"

NextGarbage(d0) ==
  IF Served(Read(wrote[nread + 1].sh, d0, NewReader(file, rs.pos, rs.fail), Clean))
  THEN {Clean} ELSE Garbage

\* what one reader >> d leaves behind
Outcome(sh, d0, r) ==
  [sh |-> sh, d0 |-> d0, v |-> r.v, start |-> rs.pos, failed0 |-> rs.fail,
   end |-> r.rd.pos, failed |-> r.rd.fail, exit |-> r.rd.exit,
   short |-> r.rd.short, lateRead |-> r.rd.lateRead,
   lateMod |-> r.rd.lateMod]

\* reader >> d; for the next of the types written, into a destination
\* that holds d0
Get(d0, u) ==
  /\ pc = "reading"
  /\ nread < Len(wrote)
  /\ last' = Outcome(wrote[nread + 1].sh, d0,
                     Read(wrote[nread + 1].sh, d0,
                          NewReader(file, rs.pos, rs.fail), u))
  /\ nread' = nread + 1
  /\ rs' = [pos |-> last'.end, fail |-> last'.failed]
  /\ pc' = IF last'.exit = "return" THEN "reading" ELSE "aborted"
  /\ UNCHANGED <<stream, wrote, file>>

Next ==
  \/ \E in \in NextInputs : Put(in)
  \/ \E cut \in 0..MaxCut : Reopen(cut)
  \/ \E d0 \in NextDests : \E u \in NextGarbage(d0) : Get(d0, u)

Spec == Init /\ [][Next]_vars

\* ------------------------------------------------------------ properties
\* the bytes writer << wrote[i].v put in the stream
BytesOf(i) == SubSeq(stream, wrote[i].start + 1, wrote[i].end)

\* no null pointer has been dereferenced by the writer
NoDeref == \A i \in 1..Len(wrote) : wrote[i].derefs = 0

\* the reader found the whole stream in the file
Intact == file = stream

\* a reader >> d has run, and the latest one ran as follows
HasRead == nread > 0

\* the latest read was served in full and returned
LastServed == HasRead /\ ~last.failed /\ last.exit = "return"

VecOptInt == Vector(Optional(TInt))

\* C1: a value written with operator<< and read back with operator>> into
\* a default-constructed destination of the same type comes back equal
\* (unordered containers: same membership); in particular the write ends.
C1_RoundTrip ==
  /\ pc # "crashed"
  /\ (HasRead /\ Intact /\ last.d0 = Default(last.sh))
       => (LastServed /\ Same(last.sh, last.v, wrote[nread].v))

\* the same without the null pointers: it holds where no write dereferenced one
C1_RoundTripNoNull ==
  (HasRead /\ Intact /\ NoDeref /\ last.d0 = Default(last.sh))
    => (LastServed /\ Same(last.sh, last.v, wrote[nread].v))

\* C2: encoding a null unique_ptr or shared_ptr writes exactly one byte, 0,
\* and does not dereference the pointer.
C2_NullPtrOneByte ==
  \A i \in 1..Len(wrote) :
    (IsPtr(wrote[i].sh) /\ wrote[i].v = <<>>)
      => /\ wrote[i].derefs = 0
         /\ BytesOf(i) = <<0>>

\* C3: decoding a presence byte of 0 into a unique_ptr or shared_ptr leaves
\* it null whatever it held, and consumes that one byte only.
C3_AbsentClearsPtr ==
  (HasRead /\ IsPtr(last.sh) /\ ~last.failed0 /\ last.start < Len(file)
     /\ file[last.start + 1] = 0)
    => (last.v = <<>> /\ last.end = last.start + 1)

\* an empty string, vector, list, deque, set or map is encoded as the
\* native-size count 0 and nothing else
C4_EncodeEmpty ==
  \A i \in 1..Len(wrote) :
    (IsCounted(wrote[i].sh) /\ wrote[i].v = <<>>)
      => BytesOf(i) = <<0, 0, 0, 0, 0, 0, 0, 0>>

ZeroCountAt(p) ==
  /\ p + SizeOf("size_t") <= Len(file)
  /\ SubSeq(file, p + 1, p + SizeOf("size_t")) = <<0, 0, 0, 0, 0, 0, 0, 0>>

\* decoding a count of 0 leaves the destination empty, whatever it held,
\* and consumes the count only
C4_DecodeEmpty ==
  (HasRead /\ IsCounted(last.sh) /\ ~last.failed0 /\ ZeroCountAt(last.start))
    => (last.v = <<>> /\ last.end = last.start + SizeOf("size_t"))

\* C4: zero-length sequences: the encoding is the count 0 alone, and
\* decoding a count of 0 leaves any destination empty and reads no further.
C4_ZeroLength == C4_EncodeEmpty /\ C4_DecodeEmpty

RECURSIVE OptIntsAt(_, _)
\* the n optional<int> the wire layout <flag><payload if flag # 0> spells
\* from byte p on
OptIntsAt(p, n) ==
  IF n = 0 THEN <<>>
  ELSE IF file[p + 1] = 0 THEN <<<<>>>> \o OptIntsAt(p + 1, n - 1)
  ELSE <<<<FromBytesLE(SubSeq(file, p + 2, p + 1 + SizeOf("int")))>>>>
         \o OptIntsAt(p + 1 + SizeOf("int"), n - 1)

\* C5: decoding an optional leaves it absent when the flag byte is 0 and
\* holding the decoded payload when it is not; also for each optional
\* element of a vector that is decoded into.
C5_OptionalFollowsFlag ==
  (LastServed /\ ~last.failed0)
    => /\ last.sh = Optional(TInt) => last.v = OptIntsAt(last.start, 1)[1]
       /\ (last.sh = VecOptInt /\ ~ZeroCountAt(last.start))
            => last.v = OptIntsAt(last.start + SizeOf("size_t"),
                                  file[last.start + 1])

\* C6: a read that comes up short anywhere inside a decode, or a failure
\* the stream already carried, is still set on the stream when the
\* outermost operator>> ends.
C6_FailureSurfaces ==
  (HasRead /\ (last.short \/ last.failed0)) => last.failed

\* a short read inside the payload of an optional in a list in a tuple
C6_Witness ==
  /\ HasRead
  /\ last.sh = Tuple(<<TBool, List(Optional(TInt))>>)
  /\ last.short /\ last.failed /\ last.exit = "return"
  /\ Len(file) > last.start + SizeOf("bool") + SizeOf("size_t") + SizeOf("bool")

\* C7: once a read has come up short, the decode call issues no further
\* read and changes its destination no further.
C7_FailureIsFatal ==
  (HasRead /\ ~last.failed0) => (~last.lateRead /\ ~last.lateMod)

\* the scalar operator<< applied to each element in index order
Elementwise(e, v) == WriteEach(e, v, 1, NewWriter, "crash").out

\* C8: for a vector or array of fundamental elements, the bytes of the
\* bulk write are those of the scalar operator<< applied to each element
\* in index order; a vector puts the native-size count before them.
C8_BulkEqualsElementwise ==
  \A i \in 1..Len(wrote) :
    LET sh == wrote[i].sh
    IN (sh.k \in {"vector", "array"} /\ serializeAsPOD(sh.es[1]))
         => BytesOf(i) =
              (IF sh.k = "vector"
               THEN ToBytesLE(Len(wrote[i].v), SizeOf("size_t")) ELSE <<>>)
              \o Elementwise(sh.es[1], wrote[i].v)

\* a vector<int> of several distinct elements has been written
C8_Witness ==
  \E i \in 1..Len(wrote) :
    /\ wrote[i].sh = Vector(TInt)
    /\ Len(wrote[i].v) >= 2
    /\ wrote[i].v[1] # wrote[i].v[2]

Scenario == <<<<>>, <<456>>, <<7890>>>>

WroteScenario(i) == wrote[i].sh = VecOptInt /\ wrote[i].v = Scenario

\* C9 as stated: [absent, 456, 7890] is written as the count, then 00,
\* C8 01 00 00, 01, 32 1E 00 00, 01.
C9_LayoutAsStated ==
  \A i \in 1..Len(wrote) :
    WroteScenario(i)
      => BytesOf(i) = <<3, 0, 0, 0, 0, 0, 0, 0,
                        0, 200, 1, 0, 0, 1, 50, 30, 0, 0, 1>>

\* C9 amended: [absent, 456, 7890] is written as the count, then 00,
\* 01 C8 01 00 00, 01 D2 1E 00 00: each flag before its payload.
C9_Layout ==
  \A i \in 1..Len(wrote) :
    WroteScenario(i)
      => BytesOf(i) = <<3, 0, 0, 0, 0, 0, 0, 0,
                        0, 1, 200, 1, 0, 0, 1, 210, 30, 0, 0>>

C9_Witness == \E i \in 1..Len(wrote) : WroteScenario(i)

\* C10: values written back to back and read back in order with the same
\* types: each operator>> consumes the bytes its operator<< produced, the
\* value comes back, and after the last read nothing is left unread.
C10_Framing ==
  (HasRead /\ Intact)
    => /\ rs.pos = wrote[nread].end
       /\ last.d0 = Default(last.sh) => Same(last.sh, last.v, wrote[nread].v)
       /\ nread = Len(wrote) => rs.pos = Len(file)

\* the same without the null pointers
C10_FramingNoNull == NoDeref => C10_Framing

====
